---- MODULE Spec2Model ----
(***************************************************************************)
(* A model of the fast-asd wrapper: the video resolver, the result         *)
(* formatter, the execution drivers (run_local, process_video_url,         *)
(* run_talknet) and the two command-line entry points (main.py,            *)
(* talknet/run_talknet.py).                                                *)
(*                                                                         *)
(* Strings the code inspects (paths, URLs, command-line tokens) are        *)
(* sequences of one-character strings, so that startswith, replace, lower  *)
(* and isdigit are computed on the characters.  The absent value None is   *)
(* the record NoneV; an absent path is the empty sequence (the code tests  *)
(* paths by truthiness).  Times are held in tenths of a second.            *)
(***************************************************************************)
EXTENDS Integers, Sequences, FiniteSets, TLC

VARIABLES
    entry,      \* the entry point of this run
    argv,       \* sys.argv[1:] of run_talknet.py
    args,       \* the parsed arguments of the entry point
    fs,         \* machine -> (path -> content): the filesystems
    fs0,        \* fs as it was when the run started
    pc,         \* the position of the run
    machine,    \* the machine the driver's code runs on
    drv,        \* the driver's local variables
    outcome,    \* how the driver ended: pending, return (value) or raise (exc)
    stdout,     \* what the run printed to standard output
    stderr,     \* what the run wrote to standard error
    exit_code,  \* the exit code of the process, NoneV while it runs
    log,        \* the steps the driver took, in order
    results,    \* format check: the list handed to the formatters
    results0,   \* format check: that list as it was before the calls
    json_main,  \* format check: what main.py's formatter returned
    json_talknet \* format check: what run_talknet.py's formatter returned

vars == <<entry, argv, args, fs, fs0, pc, machine, drv, outcome, stdout,
          stderr, exit_code, log, results, results0, json_main, json_talknet>>

NoneV == [none |-> TRUE]

----------------------------------------------------------------------------
(* Strings *)

StartsWith(s, p) == Len(s) >= Len(p) /\ SubSeq(s, 1, Len(p)) = p

\* str.replace(c, ''): every occurrence of the character c removed
Remove(s, c) == SelectSeq(s, LAMBDA x : x # c)

Digits == {"0", "1", "2", "3", "4", "5", "6", "7", "8", "9"}

\* str.isdigit(): non-empty and every character a digit
IsDigit(s) == Len(s) > 0 /\ \A i \in 1..Len(s) : s[i] \in Digits

LowerChar(c) ==
    CASE c = "T" -> "t" [] c = "R" -> "r" [] c = "U" -> "u" [] c = "E" -> "e"
      [] c = "H" -> "h" [] c = "P" -> "p" [] OTHER -> c

\* str.lower()
Lower(s) == [i \in 1..Len(s) |-> LowerChar(s[i])]

DigitVal(c) ==
    CASE c = "0" -> 0 [] c = "1" -> 1 [] c = "2" -> 2 [] c = "3" -> 3
      [] c = "4" -> 4 [] c = "5" -> 5 [] c = "6" -> 6 [] c = "7" -> 7
      [] c = "8" -> 8 [] c = "9" -> 9

RECURSIVE NatVal(_)
NatVal(s) == IF s = <<>> THEN 0
             ELSE 10 * NatVal(SubSeq(s, 1, Len(s) - 1)) + DigitVal(s[Len(s)])

IndexOf(s, c) == IF \E i \in 1..Len(s) : s[i] = c
                 THEN CHOOSE i \in 1..Len(s) : s[i] = c /\ \A j \in 1..(i-1) : s[j] # c
                 ELSE 0

\* The strings float() accepts among those made of digits, '.' and '-':
\* an optional leading '-', then digits with at most one '.', at least one
\* digit (and here at most one digit after the '.', the model's precision).
FloatOk(s) ==
    LET body == IF Len(s) > 0 /\ s[1] = "-" THEN Tail(s) ELSE s
        dot  == IndexOf(body, ".")
        ip   == IF dot = 0 THEN body ELSE SubSeq(body, 1, dot - 1)
        fp   == IF dot = 0 THEN <<>> ELSE SubSeq(body, dot + 1, Len(body))
    IN  /\ \A i \in 1..Len(ip) : ip[i] \in Digits
        /\ \A i \in 1..Len(fp) : fp[i] \in Digits
        /\ Len(ip) + Len(fp) > 0
        /\ Len(fp) <= 1

\* float(s), in tenths
FloatVal(s) ==
    LET neg  == Len(s) > 0 /\ s[1] = "-"
        body == IF neg THEN Tail(s) ELSE s
        dot  == IndexOf(body, ".")
        ip   == IF dot = 0 THEN body ELSE SubSeq(body, 1, dot - 1)
        fp   == IF dot = 0 THEN <<>> ELSE SubSeq(body, dot + 1, Len(body))
        mag  == 10 * NatVal(ip) + NatVal(fp)
    IN  IF neg THEN 0 - mag ELSE mag

----------------------------------------------------------------------------
(* Filesystems: a function from the paths that exist to their content *)

Exists(files, p) == p \in DOMAIN files

WriteFile(files, p, c) == [q \in (DOMAIN files) \cup {p} |-> IF q = p THEN c ELSE files[q]]

Unlink(files, p) == [q \in (DOMAIN files) \ {p} |-> files[q]]

NoFiles == [q \in {} |-> NoneV]

EmptyContent == [kind |-> "empty"]
VideoContent(src) == [kind |-> "video", from |-> src]
JsonContent(data) == [kind |-> "json", data |-> data]
OldContent == [kind |-> "old"]

TempNames == { <<"/", "t", "m", "p", "/", "a">>, <<"/", "t", "m", "p", "/", "b">> }

\* tempfile.NamedTemporaryFile: a name no file has
TempName(files) == CHOOSE t \in TempNames : ~Exists(files, t)

Exc(type, msg, arg) == [type |-> type, msg |-> msg, arg |-> arg]

----------------------------------------------------------------------------
(* The video resolver (main.py) *)

UrlPrefixes == { <<"h", "t", "t", "p", ":", "/", "/">>,
                 <<"h", "t", "t", "p", "s", ":", "/", "/">>,
                 <<"f", "t", "p", ":", "/", "/">> }

\* A classifier that forgets the ftp:// prefix
is_url_no_ftp(path) ==
    StartsWith(path, <<"h", "t", "t", "p", ":", "/", "/">>)
    \/ StartsWith(path, <<"h", "t", "t", "p", "s", ":", "/", "/">>)

is_url(path) == \E p \in UrlPrefixes : StartsWith(path, p)

\* An except clause that leaves the file behind
download_failed_keep(files, output_path) == files

\* The except clause of download_video_from_url: the file is removed
download_failed(files, output_path) ==
    IF Exists(files, output_path) THEN Unlink(files, output_path) ELSE files

\* ok: whether urllib.request.urlretrieve returns (TRUE) or raises (FALSE)
download_video_from_url(files, url, output_path, ok) ==
    LET path    == IF output_path = <<>> THEN TempName(files) ELSE output_path
        created == IF output_path = <<>> THEN WriteFile(files, path, EmptyContent)
                   ELSE files
    IN  IF ok
        THEN [kind |-> "return", value |-> path,
              files |-> WriteFile(created, path, VideoContent(url))]
        ELSE [kind |-> "raise",
              exc |-> Exc("Exception", "Failed to download video", url),
              created |-> path,
              files |-> download_failed(created, path)]

get_video_path_or_download(files, video_input, ok) ==
    IF is_url(video_input)
    THEN LET d == download_video_from_url(files, video_input, <<>>, ok)
         IN  IF d.kind = "return"
             THEN [kind |-> "return", path |-> d.value, needs_cleanup |-> TRUE,
                   files |-> d.files]
             ELSE d
    ELSE IF ~Exists(files, video_input)
         THEN [kind |-> "raise",
               exc |-> Exc("FileNotFoundError", "Video file not found", video_input),
               files |-> files]
         ELSE [kind |-> "return", path |-> video_input, needs_cleanup |-> FALSE,
               files |-> files]

----------------------------------------------------------------------------
(* The result formatter, once per source file *)

FPS == 25

\* frame_number / 25.0, in milliseconds
Timestamp(frame_number) == (frame_number * 1000) \div FPS

\* A formatter that takes the box's size from the wrong corners
face_info_main_swapped(face) ==
    [track_id |-> face.track_id,
     bounding_box |-> [x1 |-> face.x1, y1 |-> face.y1, x2 |-> face.x2, y2 |-> face.y2,
                       width |-> face.x1 - face.x2, height |-> face.y2 - face.y1],
     speaking |-> [is_speaking |-> face.speaking, confidence_score |-> face.raw_score,
                   threshold |-> 0]]

face_info_main(face) ==
    [track_id |-> face.track_id,
     bounding_box |-> [x1 |-> face.x1, y1 |-> face.y1, x2 |-> face.x2, y2 |-> face.y2,
                       width |-> face.x2 - face.x1, height |-> face.y2 - face.y1],
     speaking |-> [is_speaking |-> face.speaking, confidence_score |-> face.raw_score,
                   threshold |-> 0]]

frame_info_main(frame_data) ==
    [frame_number |-> frame_data.frame_number,
     timestamp |-> Timestamp(frame_data.frame_number),
     faces |-> [j \in 1..Len(frame_data.faces) |-> face_info_main(frame_data.faces[j])]]

format_results_as_json_main(res, video_path, start_time, end_time) ==
    [video_info |-> [path |-> video_path, start_time |-> start_time,
                     end_time |-> end_time, total_frames |-> Len(res)],
     frames |-> [i \in 1..Len(res) |-> frame_info_main(res[i])]]

face_info_talknet(face) ==
    [track_id |-> face.track_id,
     bounding_box |-> [x1 |-> face.x1, y1 |-> face.y1, x2 |-> face.x2, y2 |-> face.y2,
                       width |-> face.x2 - face.x1, height |-> face.y2 - face.y1],
     speaking |-> [is_speaking |-> face.speaking, confidence_score |-> face.raw_score,
                   threshold |-> 0]]

frame_info_talknet(frame_data) ==
    [frame_number |-> frame_data.frame_number,
     timestamp |-> Timestamp(frame_data.frame_number),
     faces |-> [j \in 1..Len(frame_data.faces) |-> face_info_talknet(frame_data.faces[j])]]

format_results_as_json_talknet(res, video_path, start_time, end_time) ==
    [video_info |-> [path |-> video_path, start_time |-> start_time,
                     end_time |-> end_time, total_frames |-> Len(res)],
     frames |-> [i \in 1..Len(res) |-> frame_info_talknet(res[i])]]

----------------------------------------------------------------------------
(* Inputs *)

Some(v) == [v |-> v]

HttpUrl  == <<"h", "t", "t", "p", ":", "/", "/", "v">>
HttpsUrl == <<"h", "t", "t", "p", "s", ":", "/", "/", "v">>
FtpUrl   == <<"f", "t", "p", ":", "/", "/", "v">>
UpperUrl == <<"H", "T", "T", "P", ":", "/", "/", "v">>
LocalVideo == <<"v">>
StrayTemp == <<"/", "t", "m", "p", "/", "a">>
OutFile == <<"o">>

Urls == {HttpUrl, HttpsUrl, FtpUrl}
LocalPaths == {LocalVideo, UpperUrl}
VideoInputs == Urls \cup LocalPaths

StartTimes == {0, 100}
EndTimes == {NoneV, Some(300)}

FaceA == [track_id |-> 0, x1 |-> 10, y1 |-> 20, x2 |-> 50, y2 |-> 80,
          speaking |-> TRUE, raw_score |-> 15]
FaceB == [track_id |-> 1, x1 |-> 60, y1 |-> 5, x2 |-> 40, y2 |-> 90,
          speaking |-> FALSE, raw_score |-> -7]

\* What demoTalkNet.main() returns in the driver runs
ModelOutputs == { <<>>,
                  <<[frame_number |-> 0, faces |-> <<FaceA>>]>>,
                  <<[frame_number |-> 3, faces |-> <<FaceB, FaceA>>],
                    [frame_number |-> 4, faces |-> <<>>]>> }

MaxFrames == 2
MaxFaces == 2
MaxArgs == 3

SeqsUpTo(S, n) == UNION { [1..k -> S] : k \in 0..n }

FrameNumbers == {0, 3}
RawFrames == [frame_number : FrameNumbers, faces : SeqsUpTo({FaceA, FaceB}, MaxFaces)]
RawResults == SeqsUpTo(RawFrames, MaxFrames)

NoDrv == [name |-> "none", video_input |-> <<>>, start_time |-> 0, end_time |-> NoneV,
          video_path |-> <<>>, needs_cleanup |-> FALSE, temp |-> <<>>,
          have_results |-> FALSE, results |-> <<>>, pending |-> [kind |-> "pending"],
          return_viz |-> FALSE, output_json |-> FALSE]

Pending == [kind |-> "pending"]

\* The filesystems at the start: the input file (when a path) may exist on
\* the caller's machine, the output file may exist, the remote container may
\* hold a file of the same path (another file than the caller's), and the
\* temporary directories may hold a file of an earlier run.
InitialFs(video_input, output) ==
    { [local |-> l, remote |-> r] :
        l \in { [q \in D |-> IF q = output THEN OldContent ELSE VideoContent(<<>>)] :
                  D \in SUBSET (({video_input} \cap LocalPaths) \cup ({output} \ {<<>>})
                                \cup (IF video_input \in Urls THEN {StrayTemp} ELSE {})) },
        r \in { [q \in D |-> [kind |-> "container"]] :
                  D \in SUBSET (({video_input} \cap LocalPaths)
                                \cup (IF video_input \in Urls THEN {StrayTemp} ELSE {})) } }

InitCommon ==
    /\ fs0 = fs
    /\ machine = "local"
    /\ drv = NoDrv
    /\ outcome = Pending
    /\ stdout = <<>>
    /\ stderr = <<>>
    /\ exit_code = NoneV
    /\ log = <<>>

NoFormat ==
    /\ results = <<>>
    /\ results0 = <<>>
    /\ json_main = NoneV
    /\ json_talknet = NoneV

\* python main.py <video_input> [--start s] [--end e] [--output o] [--local]
InitMainCli ==
    /\ entry = "main_cli"
    /\ argv = <<>>
    /\ args \in [video_input : VideoInputs, start : StartTimes, end : EndTimes,
                 output : {<<>>, OutFile}, local : BOOLEAN]
    /\ fs \in InitialFs(args.video_input, args.output)
    /\ pc = "validate"

\* run_local(...) or process_video_url(...) called directly
InitCall ==
    /\ entry \in {"run_local", "process_video_url"}
    /\ argv = <<>>
    /\ args \in [video_input : VideoInputs, start : StartTimes, end : EndTimes,
                 output : {<<>>}, local : {entry = "run_local"}]
    /\ fs \in InitialFs(args.video_input, <<>>)
    /\ pc = "call"

----------------------------------------------------------------------------
(* The drivers of main.py: run_local and process_video_url *)

StartDriver(name, m) ==
    /\ drv' = [NoDrv EXCEPT !.name = name, !.video_input = args.video_input,
                            !.start_time = args.start, !.end_time = args.end]
    /\ machine' = m

\* A direct call of a driver: run_local on the caller's machine,
\* process_video_url in the container
Call ==
    /\ pc = "call"
    /\ StartDriver(entry, IF entry = "run_local" THEN "local" ELSE "remote")
    /\ pc' = "resolve"
    /\ UNCHANGED <<entry, argv, args, fs, fs0, outcome, stdout, stderr, exit_code, log,
                   results, results0, json_main, json_talknet>>

\* video_path, needs_cleanup = get_video_path_or_download(video_input),
\* before the try block: an exception leaves the driver at once
Resolve ==
    /\ pc = "resolve"
    /\ \E ok \in BOOLEAN :
         LET r == get_video_path_or_download(fs[machine], drv.video_input, ok)
         IN  /\ fs' = [fs EXCEPT ![machine] = r.files]
             /\ IF r.kind = "return"
                THEN /\ drv' = [drv EXCEPT !.video_path = r.path,
                                           !.needs_cleanup = r.needs_cleanup,
                                           !.temp = IF r.needs_cleanup THEN r.path ELSE <<>>]
                     /\ log' = log \o <<"resolve_return">>
                     /\ outcome' = outcome
                     /\ pc' = IF drv.name = "process_video_url" THEN "lookup" ELSE "import"
                ELSE /\ drv' = [drv EXCEPT !.temp = IF is_url(drv.video_input)
                                                    THEN r.created ELSE <<>>]
                     /\ log' = log \o (IF is_url(drv.video_input) /\ ~Exists(r.files, r.created)
                                       THEN <<"unlink_temp">> ELSE <<>>)
                                   \o <<"resolve_raise">>
                     /\ outcome' = [kind |-> "raise", exc |-> r.exc]
                     /\ pc' = "driver_done"
    /\ UNCHANGED <<entry, argv, args, fs0, machine, stdout, stderr, exit_code,
                   results, results0, json_main, json_talknet>>

Raise(exc) == [kind |-> "raise", exc |-> exc]

\* process_video_url: the talknet directory is looked up beside the file,
\* then at /root/talknet; found: where os.path.exists answered True
Lookup ==
    /\ pc = "lookup"
    /\ \E found \in {"local_talknet", "cloud_talknet", "none"} :
         IF found = "none"
         THEN /\ drv' = [drv EXCEPT !.pending =
                            Raise(Exc("RuntimeError", "TalkNet code not found", <<>>))]
              /\ log' = log \o <<"lookup_raise">>
              /\ pc' = "finally"
         ELSE /\ drv' = drv
              /\ log' = log
              /\ pc' = "import"
    /\ UNCHANGED <<entry, argv, args, fs, fs0, machine, outcome, stdout, stderr,
                   exit_code, results, results0, json_main, json_talknet>>

\* from demoTalkNet import setup, main
Import ==
    /\ pc = "import"
    /\ \E ok \in BOOLEAN :
         IF ok
         THEN /\ drv' = drv
              /\ log' = log
              /\ pc' = "setup"
         ELSE /\ drv' = [drv EXCEPT !.pending =
                            Raise(Exc("ImportError", "No module named demoTalkNet", <<>>))]
              /\ log' = log \o <<"import_raise">>
              /\ pc' = "finally"
    /\ UNCHANGED <<entry, argv, args, fs, fs0, machine, outcome, stdout, stderr,
                   exit_code, results, results0, json_main, json_talknet>>

\* A driver that goes on to main() without calling setup()
Setup_skipped ==
    /\ pc = "setup"
    /\ pc' = "main"
    /\ UNCHANGED <<entry, argv, args, fs, fs0, machine, drv, outcome, stdout, stderr,
                   exit_code, log, results, results0, json_main, json_talknet>>

\* s, DET = setup()
Setup ==
    /\ pc = "setup"
    /\ \E ok \in BOOLEAN :
         IF ok
         THEN /\ drv' = drv
              /\ log' = log \o <<"setup_call", "setup_return">>
              /\ pc' = "main"
         ELSE /\ drv' = [drv EXCEPT !.pending =
                            Raise(Exc("Exception", "setup failed", <<>>))]
              /\ log' = log \o <<"setup_call", "setup_raise">>
              /\ pc' = "finally"
    /\ UNCHANGED <<entry, argv, args, fs, fs0, machine, outcome, stdout, stderr,
                   exit_code, results, results0, json_main, json_talknet>>

\* results = main(s=s, DET=DET, video_path=video_path, ...)
Main ==
    /\ pc = "main"
    /\ \/ \E r \in ModelOutputs :
            /\ drv' = [drv EXCEPT !.have_results = TRUE, !.results = r]
            /\ log' = log \o <<"main_call", "main_return">>
            /\ pc' = "format"
       \/ /\ drv' = [drv EXCEPT !.pending = Raise(Exc("Exception", "main failed", <<>>))]
          /\ log' = log \o <<"main_call", "main_raise">>
          /\ pc' = "finally"
    /\ UNCHANGED <<entry, argv, args, fs, fs0, machine, outcome, stdout, stderr,
                   exit_code, results, results0, json_main, json_talknet>>

\* return format_results_as_json(results, video_input, start_time, end_time)
run_local_return(res, video_input, video_path, start_time, end_time) ==
    format_results_as_json_main(res, video_input, start_time, end_time)

\* A remote driver that reports the temporary path instead of the input
process_video_url_return_temp(res, video_url, temp_video_path, start_time, end_time) ==
    format_results_as_json_main(res, temp_video_path, start_time, end_time)

\* return format_results_as_json(results, video_url, start_time, end_time)
process_video_url_return(res, video_url, temp_video_path, start_time, end_time) ==
    format_results_as_json_main(res, video_url, start_time, end_time)

Format ==
    /\ pc = "format"
    /\ drv' = [drv EXCEPT !.pending =
                 [kind |-> "return",
                  value |-> IF drv.name = "run_local"
                            THEN run_local_return(drv.results, drv.video_input,
                                     drv.video_path, drv.start_time, drv.end_time)
                            ELSE process_video_url_return(drv.results, drv.video_input,
                                     drv.video_path, drv.start_time, drv.end_time)]]
    /\ log' = log \o <<"format">>
    /\ pc' = "finally"
    /\ UNCHANGED <<entry, argv, args, fs, fs0, machine, outcome, stdout, stderr,
                   exit_code, results, results0, json_main, json_talknet>>

\* A finally clause that removes nothing
cleanup_skipped(files, video_path, needs_cleanup) == files

\* finally: if needs_cleanup and os.path.exists(video_path): os.unlink(video_path)
cleanup(files, video_path, needs_cleanup) ==
    IF needs_cleanup /\ Exists(files, video_path) THEN Unlink(files, video_path) ELSE files

Finally ==
    /\ pc = "finally"
    /\ fs' = [fs EXCEPT ![machine] = cleanup(fs[machine], drv.video_path, drv.needs_cleanup)]
    /\ log' = log \o (IF fs'[machine] # fs[machine] THEN <<"unlink_temp">> ELSE <<>>)
    /\ outcome' = drv.pending
    /\ pc' = "driver_done"
    /\ UNCHANGED <<entry, argv, args, fs0, machine, drv, stdout, stderr, exit_code,
                   results, results0, json_main, json_talknet>>

Driver == Call \/ Resolve \/ Lookup \/ Import \/ Setup \/ Main \/ Format \/ Finally

----------------------------------------------------------------------------
(* The command line of main.py *)

Say(text, arg) == [text |-> text, arg |-> arg]

Exit(code) ==
    /\ exit_code' = Some(code)
    /\ pc' = "exited"

\* A validation that prints the error and goes on
Validate_no_exit ==
    /\ pc = "validate"
    /\ IF ~is_url(args.video_input) /\ ~Exists(fs["local"], args.video_input)
       THEN /\ stdout' = stdout \o <<Say("Error: Video file not found", args.video_input)>>
            /\ log' = log \o <<"validation_failed">>
       ELSE UNCHANGED <<stdout, log>>
    /\ pc' = "dispatch"
    /\ UNCHANGED <<entry, argv, args, fs, fs0, machine, drv, outcome, stderr, exit_code,
                   results, results0, json_main, json_talknet>>

\* if not is_url(args.video_input) and not os.path.exists(args.video_input):
\*     print(...); exit(1)
Validate ==
    /\ pc = "validate"
    /\ IF ~is_url(args.video_input) /\ ~Exists(fs["local"], args.video_input)
       THEN /\ stdout' = stdout \o <<Say("Error: Video file not found", args.video_input)>>
            /\ log' = log \o <<"validation_failed">>
            /\ Exit(1)
       ELSE /\ pc' = "dispatch"
            /\ UNCHANGED <<stdout, log, exit_code>>
    /\ UNCHANGED <<entry, argv, args, fs, fs0, machine, drv, outcome, stderr,
                   results, results0, json_main, json_talknet>>

\* A handler that exits with code 0
MainExcept_exit0(e) ==
    /\ stdout' = stdout \o <<Say("Error processing video", e)>>
    /\ Exit(0)

\* except Exception as e: print(f"Error processing video: {e}"); the hint
\* when not --local; exit(1)
MainExcept(e) ==
    /\ stdout' = stdout \o <<Say("Error processing video", e)>>
                        \o (IF ~args.local THEN <<Say("Try running locally", <<>>)>> ELSE <<>>)
    /\ Exit(1)

\* if args.local: results = run_local(...)
\* else: with app.run(): results = process_video_url.remote(...)
\* up: whether app.run() starts the Modal app (TRUE) or raises (FALSE)
Dispatch ==
    /\ pc = "dispatch"
    /\ IF args.local
       THEN /\ StartDriver("run_local", "local")
            /\ pc' = "resolve"
            /\ UNCHANGED <<stdout, exit_code, log>>
       ELSE \E up \in BOOLEAN :
              IF up
              THEN /\ StartDriver("process_video_url", "remote")
                   /\ stdout' = stdout \o <<Say("Processing on Modal cloud...", <<>>)>>
                   /\ pc' = "resolve"
                   /\ UNCHANGED <<exit_code, log>>
              ELSE /\ MainExcept(Exc("Exception", "Modal app failed", <<>>))
                   /\ log' = log \o <<"app_raise">>
                   /\ UNCHANGED <<drv, machine>>
    /\ UNCHANGED <<entry, argv, args, fs, fs0, outcome, stderr,
                   results, results0, json_main, json_talknet>>

\* The driver raised: the except clause
MainDriverRaised ==
    /\ pc = "driver_done"
    /\ entry = "main_cli"
    /\ outcome.kind = "raise"
    /\ MainExcept(outcome.exc)
    /\ UNCHANGED <<entry, argv, args, fs, fs0, machine, drv, outcome, stderr, log,
                   results, results0, json_main, json_talknet>>

\* if args.output: with open(args.output, 'w') as f: json.dump(results, f)
\* else: print(json.dumps(results))
\* how: the write succeeds, open() raises, or json.dump raises after open()
\* has truncated the file
MainSave ==
    /\ pc = "driver_done"
    /\ entry = "main_cli"
    /\ outcome.kind = "return"
    /\ IF args.output # <<>>
       THEN \E how \in {"ok", "open_raise", "dump_raise"} :
              CASE how = "ok" ->
                     /\ fs' = [fs EXCEPT !["local"] =
                                 WriteFile(fs["local"], args.output, JsonContent(outcome.value))]
                     /\ log' = log \o <<"open_output">>
                     /\ stdout' = stdout \o <<Say("Results saved to", args.output)>>
                     /\ Exit(0)
                [] how = "open_raise" ->
                     /\ fs' = fs
                     /\ log' = log \o <<"open_raise">>
                     /\ MainExcept(Exc("OSError", "cannot open", args.output))
                [] how = "dump_raise" ->
                     /\ fs' = [fs EXCEPT !["local"] =
                                 WriteFile(fs["local"], args.output, EmptyContent)]
                     /\ log' = log \o <<"open_output", "dump_raise">>
                     /\ MainExcept(Exc("OSError", "cannot write", args.output))
       ELSE /\ stdout' = stdout \o <<Say("results", outcome.value)>>
            /\ Exit(0)
            /\ UNCHANGED <<fs, log>>
    /\ UNCHANGED <<entry, argv, args, fs0, machine, drv, outcome, stderr,
                   results, results0, json_main, json_talknet>>

MainCli == Validate \/ Dispatch \/ MainDriverRaised \/ MainSave

----------------------------------------------------------------------------
(* The command line of talknet/run_talknet.py *)

JsonFlag   == <<"-", "-", "j", "s", "o", "n">>
OutputFlag == <<"-", "-", "o", "u", "t", "p", "u", "t">>
TrueTok    == <<"T", "r", "u", "e">>
Zero       == <<"0">>
Thirty     == <<"3", "0">>
OneFive    == <<"1", ".", "5">>
BadNumber  == <<"1", "-", "2">>

ArgTokens == {JsonFlag, OutputFlag, OutFile, TrueTok, Zero, Thirty, OneFive, BadNumber}

\* elif arg.replace('.', '').replace('-', '').isdigit()
IsNumeric(arg) == IsDigit(Remove(Remove(arg, "."), "-"))

Parsed0(video_path) ==
    [video_path |-> video_path, start_time |-> 0, end_time |-> NoneV,
     return_viz |-> FALSE, output_json |-> FALSE, output_file |-> <<>>,
     error |-> FALSE]

\* if start_time == 0: start_time = float(arg)
\* elif end_time is None: end_time = float(arg)
take_number(st, arg) ==
    IF st.start_time = 0
    THEN IF FloatOk(arg) THEN [st EXCEPT !.start_time = FloatVal(arg)]
         ELSE [st EXCEPT !.error = TRUE]
    ELSE IF st.end_time = NoneV
         THEN IF FloatOk(arg) THEN [st EXCEPT !.end_time = Some(FloatVal(arg))]
              ELSE [st EXCEPT !.error = TRUE]
         ELSE st

\* The while loop over sys.argv[2:]; a[i] is sys.argv[i].  A ValueError of
\* float() ends the loop (error).
RECURSIVE parse_loop(_, _, _)
parse_loop(a, i, st) ==
    IF i > Len(a) \/ st.error THEN st
    ELSE LET arg == a[i] IN
         IF arg = JsonFlag
         THEN parse_loop(a, i + 1, [st EXCEPT !.output_json = TRUE])
         ELSE IF arg = OutputFlag /\ i + 1 <= Len(a)
         THEN parse_loop(a, i + 2, [st EXCEPT !.output_file = a[i + 1]])
         ELSE IF Lower(arg) = Lower(TrueTok)
         THEN parse_loop(a, i + 1, [st EXCEPT !.return_viz = TRUE])
         ELSE IF IsNumeric(arg)
         THEN parse_loop(a, i + 1, take_number(st, arg))
         ELSE parse_loop(a, i + 1, st)

parse_args(a) == parse_loop(a, 2, Parsed0(a[1]))

InitTalknetCli ==
    /\ entry = "talknet_cli"
    /\ argv \in {<<>>} \cup { <<LocalVideo>> \o t : t \in SeqsUpTo(ArgTokens, MaxArgs) }
    /\ args = Parsed0(<<>>)
    /\ fs \in { [local |-> l, remote |-> NoFiles] :
                 l \in { [q \in D |-> IF q = OutFile THEN OldContent ELSE VideoContent(<<>>)] :
                           D \in SUBSET {LocalVideo, OutFile} } }
    /\ pc = "t_import"

\* An exception no try block catches: the interpreter writes the traceback
\* to standard error and exits with code 1
Uncaught(e) ==
    /\ stderr' = stderr \o <<Say("Traceback", e)>>
    /\ Exit(1)

\* from demoTalkNet import setup, main (at module level)
TalknetImport ==
    /\ pc = "t_import"
    /\ \E ok \in BOOLEAN :
         IF ok
         THEN /\ pc' = "t_parse"
              /\ UNCHANGED <<stderr, exit_code>>
         ELSE Uncaught(Exc("ImportError", "No module named demoTalkNet", <<>>))
    /\ UNCHANGED <<entry, argv, args, fs, fs0, machine, drv, outcome, stdout, log,
                   results, results0, json_main, json_talknet>>

\* if len(sys.argv) < 2: usage, sys.exit(1); then the argument loop
TalknetParse ==
    /\ pc = "t_parse"
    /\ IF Len(argv) < 1
       THEN /\ stdout' = stdout \o <<Say("Usage", <<>>)>>
            /\ Exit(1)
            /\ UNCHANGED <<args, stderr>>
       ELSE LET p == parse_args(argv) IN
            IF p.error
            THEN /\ Uncaught(Exc("ValueError", "could not convert string to float", <<>>))
                 /\ UNCHANGED <<args, stdout>>
            ELSE /\ args' = p
                 /\ pc' = "t_check"
                 /\ UNCHANGED <<stdout, stderr, exit_code>>
    /\ UNCHANGED <<entry, argv, fs, fs0, machine, drv, outcome, log,
                   results, results0, json_main, json_talknet>>

\* run_talknet: if not os.path.exists(video_path): raise FileNotFoundError
TalknetCheck ==
    /\ pc = "t_check"
    /\ LET d == [NoDrv EXCEPT !.name = "run_talknet", !.video_input = args.video_path,
                              !.video_path = args.video_path,
                              !.start_time = args.start_time, !.end_time = args.end_time,
                              !.return_viz = args.return_viz,
                              !.output_json = args.output_json]
       IN  /\ drv' = d
           /\ IF ~Exists(fs["local"], d.video_path)
              THEN /\ outcome' = Raise(Exc("FileNotFoundError", "Video file not found",
                                           d.video_path))
                   /\ log' = log \o <<"resolve_raise">>
                   /\ pc' = "driver_done"
              ELSE /\ outcome' = outcome
                   /\ log' = log \o <<"resolve_return">>
                   /\ pc' = "t_setup"
    /\ UNCHANGED <<entry, argv, args, fs, fs0, machine, stdout, stderr, exit_code,
                   results, results0, json_main, json_talknet>>

\* run_talknet: s, DET = setup()
TalknetSetup ==
    /\ pc = "t_setup"
    /\ \E ok \in BOOLEAN :
         IF ok
         THEN /\ log' = log \o <<"setup_call", "setup_return">>
              /\ outcome' = outcome
              /\ pc' = "t_main"
         ELSE /\ log' = log \o <<"setup_call", "setup_raise">>
              /\ outcome' = Raise(Exc("Exception", "setup failed", <<>>))
              /\ pc' = "driver_done"
    /\ UNCHANGED <<entry, argv, args, fs, fs0, machine, drv, stdout, stderr, exit_code,
                   results, results0, json_main, json_talknet>>

\* run_talknet: results = main(...); the JSON structure when output_json,
\* the raw results otherwise
TalknetMain ==
    /\ pc = "t_main"
    /\ \/ \E r \in ModelOutputs :
            /\ drv' = [drv EXCEPT !.have_results = TRUE, !.results = r]
            /\ IF drv.output_json
               THEN /\ outcome' = [kind |-> "return",
                                   value |-> format_results_as_json_talknet(r,
                                       drv.video_path, drv.start_time, drv.end_time)]
                    /\ log' = log \o <<"main_call", "main_return", "format">>
               ELSE /\ outcome' = [kind |-> "return", value |-> r]
                    /\ log' = log \o <<"main_call", "main_return">>
       \/ /\ drv' = drv
          /\ outcome' = Raise(Exc("Exception", "main failed", <<>>))
          /\ log' = log \o <<"main_call", "main_raise">>
    /\ pc' = "driver_done"
    /\ UNCHANGED <<entry, argv, args, fs, fs0, machine, stdout, stderr, exit_code,
                   results, results0, json_main, json_talknet>>

\* except Exception as e: print(f"Error: {e}"); sys.exit(1)
TalknetExcept(e) ==
    /\ stdout' = stdout \o <<Say("Error", e)>>
    /\ Exit(1)

TalknetDriverRaised ==
    /\ pc = "driver_done"
    /\ entry = "talknet_cli"
    /\ outcome.kind = "raise"
    /\ TalknetExcept(outcome.exc)
    /\ UNCHANGED <<entry, argv, args, fs, fs0, machine, drv, outcome, stderr, log,
                   results, results0, json_main, json_talknet>>

\* The output of run_talknet.py: the JSON to the file or to standard output,
\* or the summary of the first frames
TalknetOutput ==
    /\ pc = "driver_done"
    /\ entry = "talknet_cli"
    /\ outcome.kind = "return"
    /\ IF args.output_json /\ args.output_file # <<>>
       THEN \E how \in {"ok", "open_raise", "dump_raise"} :
              CASE how = "ok" ->
                     /\ fs' = [fs EXCEPT !["local"] =
                                 WriteFile(fs["local"], args.output_file,
                                           JsonContent(outcome.value))]
                     /\ log' = log \o <<"open_output">>
                     /\ stdout' = stdout \o <<Say("JSON results saved to", args.output_file)>>
                     /\ Exit(0)
                [] how = "open_raise" ->
                     /\ fs' = fs
                     /\ log' = log \o <<"open_raise">>
                     /\ TalknetExcept(Exc("OSError", "cannot open", args.output_file))
                [] how = "dump_raise" ->
                     /\ fs' = [fs EXCEPT !["local"] =
                                 WriteFile(fs["local"], args.output_file, EmptyContent)]
                     /\ log' = log \o <<"open_output", "dump_raise">>
                     /\ TalknetExcept(Exc("OSError", "cannot write", args.output_file))
       ELSE /\ stdout' = stdout \o <<Say(IF args.output_json THEN "results" ELSE "summary",
                                         outcome.value)>>
            /\ Exit(0)
            /\ UNCHANGED <<fs, log>>
    /\ UNCHANGED <<entry, argv, args, fs0, machine, drv, outcome, stderr,
                   results, results0, json_main, json_talknet>>

TalknetCli == TalknetImport \/ TalknetParse \/ TalknetCheck \/ TalknetSetup
              \/ TalknetMain \/ TalknetDriverRaised \/ TalknetOutput

----------------------------------------------------------------------------
(* The formatters alone, on every list of raw results within the bounds *)

InitFormat ==
    /\ entry = "format"
    /\ argv = <<>>
    /\ args \in [video_input : {LocalVideo, HttpUrl}, start : {0}, end : EndTimes,
                 output : {<<>>}, local : {TRUE}]
    /\ fs = [local |-> NoFiles, remote |-> NoFiles]
    /\ pc = "format_only"
    /\ InitCommon
    /\ results \in RawResults
    /\ results0 = results
    /\ json_main = NoneV
    /\ json_talknet = NoneV

\* main.py: format_results_as_json(results, video_path, start_time, end_time)
CallFormatMain ==
    /\ pc = "format_only"
    /\ json_main = NoneV
    /\ json_main' = format_results_as_json_main(results, args.video_input,
                                                  args.start, args.end)
    /\ UNCHANGED <<entry, argv, args, fs, fs0, pc, machine, drv, outcome, stdout,
                   stderr, exit_code, log, results, results0, json_talknet>>

\* run_talknet.py: format_results_as_json(results, video_path, start_time, end_time)
CallFormatTalknet ==
    /\ pc = "format_only"
    /\ json_talknet = NoneV
    /\ json_talknet' = format_results_as_json_talknet(results, args.video_input,
                                                        args.start, args.end)
    /\ UNCHANGED <<entry, argv, args, fs, fs0, pc, machine, drv, outcome, stdout,
                   stderr, exit_code, log, results, results0, json_main>>

----------------------------------------------------------------------------
(* Specification *)

Init == \/ (InitMainCli \/ InitCall \/ InitTalknetCli) /\ InitCommon /\ NoFormat
        \/ InitFormat

NextFormat == CallFormatMain \/ CallFormatTalknet

Next == Driver \/ MainCli \/ TalknetCli \/ NextFormat

Spec == Init /\ [][Next]_vars

----------------------------------------------------------------------------
(* Properties *)

Has(e) == \E i \in 1..Len(log) : log[i] = e

Pos(e) == IF Has(e) THEN CHOOSE i \in 1..Len(log) : log[i] = e /\ \A j \in 1..(i-1) : log[j] # e
          ELSE 0

Before(a, b) == Has(a) /\ Has(b) /\ Pos(a) < Pos(b)

MainDriver == drv.name \in {"run_local", "process_video_url"}

\* The driver has returned or raised
DriverEnded == MainDriver /\ pc \in {"driver_done", "exited"}

SameFile(f, g, p) == /\ Exists(f, p) <=> Exists(g, p)
                     /\ Exists(f, p) => f[p] = g[p]

\* C1: once run_local or process_video_url has returned or raised, whatever
\* setup() and main() did, no temporary file created for a URL input exists
\* any more on the driver's machine, and for a local-path input
\* needs_cleanup is False and the input file is as it was.
C1_TempFileCleanup ==
    DriverEnded =>
        /\ drv.video_input \in Urls =>
              (DOMAIN fs[machine]) \cap TempNames \subseteq DOMAIN fs0[machine]
        /\ drv.video_input \in LocalPaths =>
              /\ drv.needs_cleanup = FALSE
              /\ SameFile(fs[machine], fs0[machine], drv.video_input)

\* main() raised after a download, and the driver has ended
C1_Witness ==
    /\ DriverEnded
    /\ drv.video_input \in Urls
    /\ Has("main_raise")
    /\ Has("unlink_temp")
    /\ ~Exists(fs[machine], drv.temp)

\* The failures C2 lists: the input not found at pre-validation, an
\* exception of a driver or of the model call, or of the output writing
FailingRun ==
    \/ Has("validation_failed") \/ Has("resolve_raise") \/ Has("lookup_raise")
    \/ Has("import_raise") \/ Has("setup_raise") \/ Has("main_raise")
    \/ Has("app_raise") \/ Has("open_raise") \/ Has("dump_raise")

CliRun == entry \in {"main_cli", "talknet_cli"}

ErrorTexts == {"Error: Video file not found", "Error processing video", "Error"}

\* C2 as stated: a failing run of a command line ends with the error
\* message on standard error and a nonzero exit code.
C2_ErrorOnStderr ==
    (CliRun /\ pc = "exited" /\ FailingRun) =>
        /\ exit_code # Some(0)
        /\ \E i \in 1..Len(stderr) : stderr[i].text \in ErrorTexts \cup {"Traceback"}

\* C2 as amended: a failing run of a command line ends with the error
\* message printed to standard output, nothing on standard error and exit
\* code 1; no failing run ends with exit code 0.
C2_ErrorOnStdout ==
    (CliRun /\ pc = "exited") =>
        /\ FailingRun =>
              /\ exit_code = Some(1)
              /\ \E i \in 1..Len(stdout) : stdout[i].text \in ErrorTexts
              /\ stderr = <<>>
        /\ exit_code = Some(0) => ~FailingRun

\* main.py has ended after main() raised
C2_Witness ==
    /\ entry = "main_cli"
    /\ pc = "exited"
    /\ Has("main_raise")
    /\ exit_code = Some(1)
    /\ stdout[Len(stdout) - (IF args.local THEN 0 ELSE 1)].text = "Error processing video"

\* The resolver of a main.py driver has just returned or raised
JustResolved ==
    /\ MainDriver
    /\ log # <<>>
    /\ log[Len(log)] \in {"resolve_return", "resolve_raise"}

ResolverReturned == log[Len(log)] = "resolve_return"

ResolvedUrl ==
    /\ ResolverReturned
    /\ drv.needs_cleanup = TRUE
    /\ drv.video_path \in TempNames
    /\ ~Exists(fs0[machine], drv.video_path)
    /\ Exists(fs[machine], drv.video_path)
    /\ fs[machine][drv.video_path] = VideoContent(drv.video_input)
    /\ \A q \in DOMAIN fs0[machine] : SameFile(fs[machine], fs0[machine], q)

ResolvedPath ==
    /\ drv.video_input \in LocalPaths /\ Exists(fs0[machine], drv.video_input) =>
          /\ ResolverReturned
          /\ drv.video_path = drv.video_input
          /\ drv.needs_cleanup = FALSE
          /\ fs[machine] = fs0[machine]
    /\ drv.video_input \in LocalPaths /\ ~Exists(fs0[machine], drv.video_input) =>
          /\ ~ResolverReturned
          /\ outcome.kind = "raise"
          /\ outcome.exc.type = "FileNotFoundError"
          /\ fs[machine] = fs0[machine]

\* C3 as stated: for a URL the content is downloaded to a new temporary
\* file and the result is (temp path, True); for an existing local file the
\* result is (input, False) and no file is created; otherwise
\* FileNotFoundError is raised and no file is created.
C3_ResolverAlwaysDownloads ==
    JustResolved =>
        /\ drv.video_input \in Urls => ResolvedUrl
        /\ ResolvedPath

\* C3 as amended: for a URL whose retrieval succeeds the content is in a new
\* temporary file and the result is (temp path, True); when the retrieval
\* raises, an Exception 'Failed to download video' is raised and the
\* filesystem is as before; the two local-path cases are as stated.
C3_Resolver ==
    JustResolved =>
        /\ drv.video_input \in Urls =>
              \/ ResolvedUrl
              \/ /\ ~ResolverReturned
                 /\ outcome.kind = "raise"
                 /\ outcome.exc.type = "Exception"
                 /\ outcome.exc.msg = "Failed to download video"
                 /\ fs[machine] = fs0[machine]
        /\ ResolvedPath

\* An ftp:// URL was downloaded beside an older temporary file
C3_Witness ==
    /\ JustResolved
    /\ drv.video_input = FtpUrl
    /\ ResolverReturned
    /\ Exists(fs0[machine], StrayTemp)
    /\ Exists(fs[machine], drv.video_path)
    /\ drv.video_path # StrayTemp


\* C4: for the same input, times and raw results, run_local and
\* process_video_url return the same structure, whose video_info.path is the
\* input string and not the temporary path, and the formatter of main.py and
\* the formatter of run_talknet.py give the same output on every input.
C4_SharedPostProcessing ==
    /\ (MainDriver /\ drv.pending.kind = "return") =>
          /\ drv.pending.value.video_info.path = drv.video_input
          /\ \A t \in TempNames \cup {drv.video_input} :
                /\ drv.pending.value =
                      run_local_return(drv.results, drv.video_input, t,
                                       drv.start_time, drv.end_time)
                /\ drv.pending.value =
                      process_video_url_return(drv.results, drv.video_input, t,
                                               drv.start_time, drv.end_time)
          /\ drv.pending.value =
                format_results_as_json_talknet(drv.results, drv.video_input,
                                               drv.start_time, drv.end_time)
    /\ (json_main # NoneV /\ json_talknet # NoneV) => json_main = json_talknet

\* process_video_url has formatted the results of a downloaded video
C4_Witness ==
    /\ drv.name = "process_video_url"
    /\ drv.pending.kind = "return"
    /\ drv.video_input \in Urls
    /\ drv.video_path # drv.video_input
    /\ Len(drv.results) = 2

Formatted(json, res) ==
    /\ json.video_info.total_frames = Len(res)
    /\ Len(json.frames) = Len(res)
    /\ \A i \in 1..Len(res) :
          /\ json.frames[i].frame_number = res[i].frame_number
          /\ Len(json.frames[i].faces) = Len(res[i].faces)
          /\ \A j \in 1..Len(res[i].faces) :
                LET out == json.frames[i].faces[j]
                    face == res[i].faces[j]
                IN  /\ out.track_id = face.track_id
                    /\ out.bounding_box.width = face.x2 - face.x1
                    /\ out.bounding_box.height = face.y2 - face.y1
                    /\ out.speaking.is_speaking = face.speaking
                    /\ out.speaking.confidence_score = face.raw_score
                    /\ out.speaking.threshold = 0

\* C5: the formatter's output has total_frames equal to the number of frames
\* of the output and of the input, the frames in input order with their
\* frame numbers, one face entry per input face in input order with its
\* track id, width = x2 - x1 and height = y2 - y1, the speaking flag and the
\* score as given, threshold 0, and the input list is left as it was.
C5_Formatter ==
    /\ json_main # NoneV => Formatted(json_main, results0)
    /\ json_talknet # NoneV => Formatted(json_talknet, results0)
    /\ results = results0

\* Both formatters ran on two frames, the first with two different faces
C5_Witness ==
    /\ json_main # NoneV
    /\ json_talknet # NoneV
    /\ Len(results) = 2
    /\ Len(results[1].faces) = 2
    /\ results[1].faces[1] # results[1].faces[2]

\* C6: main.py without --local on a video file of the caller's machine
\* processes it on Modal: the remote function does not fail with 'Video
\* file not found'.
C6_RemoteRunOfLocalFile ==
    (/\ entry = "main_cli"
     /\ ~args.local
     /\ args.video_input \in LocalPaths
     /\ Exists(fs0["local"], args.video_input)
     /\ outcome.kind = "raise")
    => outcome.exc.type # "FileNotFoundError"

StepsInOrder ==
    /\ Has("setup_call") => Before("resolve_return", "setup_call")
    /\ Has("main_call") => Before("setup_return", "main_call")
    /\ Has("format") => Before("main_return", "format")
    /\ (Has("format") /\ Has("unlink_temp")) => Before("format", "unlink_temp")
    /\ Has("resolve_raise") => ~Has("setup_call") /\ ~Has("main_call")
    /\ \A i \in 1..Len(log) : \A j \in 1..Len(log) : log[i] = log[j] => i = j

\* C7 as stated: each driver resolves, calls setup(), calls main(), formats
\* and cleans up in this order; setup() and main() are not called when the
\* resolution fails; main() is not called before setup() has returned; the
\* temporary file is not deleted before main() has returned or raised.
C7_DeletedOnlyAfterMain ==
    /\ StepsInOrder
    /\ Has("unlink_temp") =>
          \/ Before("main_return", "unlink_temp")
          \/ Before("main_raise", "unlink_temp")

\* C7 as amended: as stated, except that the temporary file is deleted
\* either after main() has returned or raised, or after an earlier step
\* (the download, the talknet directory lookup, the import, setup()) has
\* raised, and then main() is never called.
C7_Ordering ==
    /\ StepsInOrder
    /\ Has("unlink_temp") =>
          \/ Before("main_return", "unlink_temp")
          \/ Before("main_raise", "unlink_temp")
          \/ /\ ~Has("main_call")
             /\ \/ Before("lookup_raise", "unlink_temp")
                \/ Before("import_raise", "unlink_temp")
                \/ Before("setup_raise", "unlink_temp")
                \/ Before("unlink_temp", "resolve_raise")

\* A driver went through all its steps on a downloaded video
C7_Witness ==
    /\ DriverEnded
    /\ log = <<"resolve_return", "setup_call", "setup_return", "main_call",
               "main_return", "format", "unlink_temp">>

\* The positional arguments of run_talknet.py: the tokens after the video
\* path that are neither a flag nor the operand of --output
RECURSIVE Positional(_, _)
Positional(a, i) ==
    IF i > Len(a) THEN <<>>
    ELSE IF a[i] = OutputFlag /\ i + 1 <= Len(a) THEN Positional(a, i + 2)
    ELSE IF a[i] = JsonFlag \/ Lower(a[i]) = Lower(TrueTok) THEN Positional(a, i + 1)
    ELSE <<a[i]>> \o Positional(a, i + 1)

Numbers(a) ==
    SelectSeq(Positional(a, 2), LAMBDA t : IsNumeric(t) /\ FloatOk(t))

\* C8: the first numeric argument after the video path is start_time and
\* the second is end_time, also when the first is 0; without numeric
\* arguments start_time is 0 and end_time is None.
C8_PositionalTimes ==
    (entry = "talknet_cli" /\ pc = "t_check") =>
        LET n == Numbers(argv) IN
        /\ args.start_time = (IF Len(n) >= 1 THEN FloatVal(n[1]) ELSE 0)
        /\ args.end_time = (IF Len(n) >= 2 THEN Some(FloatVal(n[2])) ELSE NoneV)

\* C9: when the retrieval raises, the temporary file that
\* download_video_from_url created is removed before the exception 'Failed
\* to download video' reaches the caller: after a failed URL resolution in
\* run_local or process_video_url no temporary file of that call exists.
C9_FailedDownloadLeavesNoFile ==
    (MainDriver /\ drv.video_input \in Urls /\ Has("resolve_raise")) =>
        /\ outcome.kind = "raise"
        /\ outcome.exc.msg = "Failed to download video"
        /\ drv.temp \in TempNames
        /\ ~Exists(fs0[machine], drv.temp)
        /\ ~Exists(fs[machine], drv.temp)
        /\ DOMAIN fs[machine] = DOMAIN fs0[machine]
        /\ Before("unlink_temp", "resolve_raise")

\* The download of a driver on the caller's machine has failed
C9_Witness ==
    /\ drv.name = "run_local"
    /\ drv.video_input \in Urls
    /\ Has("resolve_raise")
    /\ pc = "driver_done"
    /\ drv.temp \in TempNames

OutputTouched == ~SameFile(fs["local"], fs0["local"], args.output)

\* C10: main.py opens the --output file only when the driver has returned
\* results; when the pre-validation fails or the driver raises, the file is
\* neither created nor modified, and no driver is invoked after a failed
\* pre-validation.
C10_OutputOnlyAfterSuccess ==
    (entry = "main_cli" /\ args.output # <<>>) =>
        /\ (OutputTouched \/ Has("open_output") \/ Has("open_raise")) =>
              outcome.kind = "return"
        /\ (Has("validation_failed") \/ outcome.kind = "raise" \/ Has("app_raise")) =>
              ~OutputTouched /\ ~Has("open_output")
        /\ Has("validation_failed") =>
              /\ drv.name = "none"
              /\ log = <<"validation_failed">>
              /\ pc = "exited"

\* main.py has ended after its driver raised, the old output file in place
C10_Witness ==
    /\ entry = "main_cli"
    /\ pc = "exited"
    /\ outcome.kind = "raise"
    /\ args.output = OutFile
    /\ Exists(fs0["local"], OutFile)
    /\ fs["local"][OutFile] = OldContent

====
